---- MODULE Spec2Model ----
(***************************************************************************)
(* A model of walrs' Topics Manager (core/src/managers/topics_manager.rs): *)
(* the command loop of start_topics_manager, create_topic, the routing of  *)
(* GetPartitionManagerTx, the cancellation branch with its TaskTracker,    *)
(* the Partition Writer tasks the manager spawns, the producers sending    *)
(* into the partition channels, and the reading of a segment file with the *)
(* Batch Codec.  The writer (managers/partition_manager.rs), PartitionInfo *)
(* (models.rs) and the codec (common::codecs) are not among the source     *)
(* files; they are modelled from sections 4.1, 4.2 and 6 of the            *)
(* specification and from the test of topics_manager.rs.                   *)
(***************************************************************************)
EXTENDS Integers, Sequences, FiniteSets, TLC

VARIABLES
    topics,                 \* TopicsManager.topics: topic name -> Topic
    partition_client_tx,    \* TopicsManager.partition_client_tx: "{name}-{index}" -> Sender
    partitions,             \* the spawned Partition Writer tasks, in spawn order; the
                            \* index of a task is also the identity of its channel
    tracker_closed,         \* partition_manager_task_tracker.close() was called
    cancelled,              \* the CancellationToken (shared with every writer)
    mgr,                    \* position of start_topics_manager
    panic_at,               \* source line of the panic that ended the manager, 0 if none
    parent_rx,              \* the command channel, oldest command first
    last,                   \* the command processed last and what its reply channel got
    files,                  \* segment file path -> the batches appended, in write order
    sent,                   \* per channel: how many messages were sent into it
    sent_before_cancel,     \* per channel: how many of them before cancel() was called
    handles,                \* the Senders clients got from GetPartitionManagerTx replies
    parent_tx_dropped,      \* every Sender of the command channel was dropped
    suspended,              \* the channels on which a producer's send is suspended
    source_batches,         \* the batches that were encoded into the bytes being read
    file_contents,          \* the encoded bytes not yet read into the decoder's buffer
    src,                    \* the decoder's buffer (BytesMut)
    decoded_batches,        \* the batches the decode calls returned, in call order
    decode_result           \* what the last decode call returned: "Some", "None", "Err"

\* The reader of a segment file, with the codec's input and output.
reader == <<source_batches, file_contents, src, decoded_batches, decode_result>>

\* The manager with its clients, its writers and their files.
broker == <<topics, partition_client_tx, partitions, tracker_closed, cancelled, mgr,
            panic_at, parent_rx, last, files, sent, sent_before_cancel, handles,
            parent_tx_dropped, suspended>>

vars == <<broker, reader>>

(***************************************************************************)
(* Bounds of the model.                                                    *)
(***************************************************************************)
\* Largest num_partitions a CreateTopic request carries.
MaxPartitions == 2
\* Largest batch_size a CreateTopic request carries.
MaxBatch == 2
\* Messages producers send in one run, over all partition channels.
MaxSent == 3
\* Capacity of the command channel (the caller's choice; mpsc::channel(5) in the test).
CmdCap == 1
\* Capacity of a partition channel; 1000 in the source, scaled down here.
PARTITION_MANAGER_CHANNEL_SIZE == 2
\* Records encoded into one buffer, over all its batches.
MaxRecords == 3

Names == {"a", "b"}
Keys == {"k1", "k2"}
LogDir == "log"

(***************************************************************************)
(* Option<T>: None is the empty sequence, Some(x) the sequence <<x>>.      *)
(***************************************************************************)
None == <<>>
Some(x) == <<x>>
IsSome(o) == Len(o) = 1
Unwrap(o) == o[1]

\* common::models::Topic, the fields the manager and the writer read.
Topic(name, num_partitions, batch_size) ==
    [name |-> name, num_partitions |-> num_partitions, batch_size |-> batch_size]

CreateTopicCmd(topic) ==
    [type |-> "CreateTopic", topic_name |-> topic.name, topic |-> Some(topic),
     message_key |-> None]
GetTopicInfoCmd(name) ==
    [type |-> "GetTopicInfo", topic_name |-> name, topic |-> None,
     message_key |-> None]
GetPartitionManagerTxCmd(name, key) ==
    [type |-> "GetPartitionManagerTx", topic_name |-> name, topic |-> None,
     message_key |-> key]

\* The commands clients send when the claims are about the command loop: every
\* variant, with and without a key; topic "a" is created with no, zero or several
\* partitions, topic "b" is never created.
ControlCommands ==
    {CreateTopicCmd(Topic("a", p, MaxBatch)) :
        p \in {None} \cup {Some(k) : k \in 0..MaxPartitions}}
    \cup {GetTopicInfoCmd(n) : n \in Names}
    \cup {GetPartitionManagerTxCmd(n, k) :
            n \in Names, k \in {None} \cup {Some(k) : k \in Keys}}

\* The commands clients send when the claims are about the data path: two topics
\* of one partition each, with different batch sizes, and the keyless lookup.
DataCommands ==
    {CreateTopicCmd(Topic("a", Some(1), MaxBatch)),
     CreateTopicCmd(Topic("b", Some(1), 1))}
    \cup {GetPartitionManagerTxCmd(n, None) : n \in Names}

TopicManagerCommands == ControlCommands \cup DataCommands

\* What a reply channel received: kind is "topic" (Option<Topic> in topic),
\* "tx" (Option<Sender> in tx), "dropped" (the receiver was gone and send returned
\* Err) or "none" (the manager panicked before it sent).
Reply(kind, topic, tx) == [kind |-> kind, topic |-> topic, tx |-> tx]
NoReply == Reply("none", None, None)
DroppedReply == Reply("dropped", None, None)

\* DefaultHasher (SipHash-1-3 with zero keys) over the key's bytes: a fixed
\* function of the key; the values stand for its 64-bit outputs.
Hash(key) == CASE key = "k1" -> 4
               [] key = "k2" -> 5
               [] OTHER -> 7

\* Mutant of PartitionName: the routing key leaves the topic name out.
PartitionNameIndexOnly(topic_name, partition_index) ==
    ToString(partition_index)

\* format!("{}-{}", topic_name, partition_index)
PartitionName(topic_name, partition_index) ==
    topic_name \o "-" \o ToString(partition_index)

\* {log_dir}/{partition_index}/segment_0.log
SegmentFilePath(log_dir_path, partition_index) ==
    log_dir_path \o "/" \o ToString(partition_index) \o "/segment_0.log"

InitBroker ==
    /\ topics = << >>
    /\ partition_client_tx = << >>
    /\ partitions = << >>
    /\ tracker_closed = FALSE
    /\ cancelled = FALSE
    /\ mgr = "running"
    /\ panic_at = 0
    /\ parent_rx = << >>
    /\ last = [cmd |-> None, reply |-> NoReply]
    /\ files = << >>
    /\ sent = << >>
    /\ sent_before_cancel = << >>
    /\ handles = {}
    /\ parent_tx_dropped = FALSE
    /\ suspended = {}

\* Nothing is being read.
InitReader ==
    /\ source_batches = << >>
    /\ file_contents = << >>
    /\ src = << >>
    /\ decoded_batches = << >>
    /\ decode_result = ""

Init == InitBroker /\ InitReader

(***************************************************************************)
(* The Topics Manager.                                                     *)
(***************************************************************************)
\* reply_tx.send(value).unwrap(): send fails when the receiver was dropped, and
\* the unwrap at `line` then panics.
reply_tx_send_unwrap(command, reply, reply_rx_alive, line) ==
    IF reply_rx_alive
    THEN /\ last' = [cmd |-> Some(command), reply |-> reply]
         /\ UNCHANGED <<mgr, panic_at>>
    ELSE /\ last' = [cmd |-> Some(command), reply |-> DroppedReply]
         /\ mgr' = "panicked"
         /\ panic_at' = line

\* A panic before any reply was sent.
panic(command, line) ==
    /\ last' = [cmd |-> Some(command), reply |-> NoReply]
    /\ mgr' = "panicked"
    /\ panic_at' = line

\* The writer task create_topic spawns for one partition, with its fresh channel.
NewPartition(topic, partition_index) ==
    [topic |-> topic.name,
     partition_index |-> partition_index,
     batch_size |-> topic.batch_size,
     path |-> SegmentFilePath(LogDir, partition_index),
     state |-> "Open",
     rx |-> << >>,
     pending |-> << >>]

\* Mutant of reply_existing_topic: the requested record replaces the stored one.
reply_existing_topic_overwriting(topic, reply_rx_alive) ==
    /\ topics' = [topics EXCEPT ![topic.name] = topic]
    /\ reply_tx_send_unwrap(CreateTopicCmd(topic), Reply("topic", Some(topic), None),
                            reply_rx_alive, 94)
    /\ UNCHANGED <<partition_client_tx, partitions, sent, handles>>

\* create_topic, the topic exists: reply with the stored record.
reply_existing_topic(topic, reply_rx_alive) ==
    /\ reply_tx_send_unwrap(CreateTopicCmd(topic),
                            Reply("topic", Some(topics[topic.name]), None),
                            reply_rx_alive, 94)
    /\ UNCHANGED <<topics, partition_client_tx, partitions, sent, handles>>

\* Mutant of create_new_topic: the topic is inserted into the catalog first, before
\* its partitions are spawned and registered.
create_new_topic_catalog_first(topic, reply_rx_alive) ==
    IF ~IsSome(topic.num_partitions)
    THEN /\ topics' = (topic.name :> topic) @@ topics
         /\ panic(CreateTopicCmd(topic), 96)
         /\ UNCHANGED <<partition_client_tx, partitions, sent, handles>>
    ELSE LET n == Unwrap(topic.num_partitions)
             base == Len(partitions)
         IN /\ topics' = (topic.name :> topic) @@ topics
            /\ partition_client_tx' =
                   [p \in {PartitionName(topic.name, i) : i \in 0..(n - 1)} |->
                       base + 1 + CHOOSE i \in 0..(n - 1) :
                                     PartitionName(topic.name, i) = p]
                   @@ partition_client_tx
            /\ partitions' =
                   partitions \o [i \in 1..n |-> NewPartition(topic, i - 1)]
            /\ sent' = sent \o [i \in 1..n |-> 0]
            /\ reply_tx_send_unwrap(CreateTopicCmd(topic),
                                    Reply("topic", Some(topic), None),
                                    reply_rx_alive, 112)
            /\ UNCHANGED handles

\* create_topic, the topic is new: one channel, one routing entry and one spawned
\* writer per partition index, then the catalog entry, then the reply.
create_new_topic(topic, reply_rx_alive) ==
    IF ~IsSome(topic.num_partitions)
    THEN /\ panic(CreateTopicCmd(topic), 96)
         /\ UNCHANGED <<topics, partition_client_tx, partitions, sent, handles>>
    ELSE LET n == Unwrap(topic.num_partitions)
             base == Len(partitions)
             inserted == {PartitionName(topic.name, i) : i \in 0..(n - 1)}
             \* HashMap::insert in loop order: the last insert under a name wins
             tx_of(partition_name) ==
                 base + 1 + CHOOSE i \in 0..(n - 1) :
                     /\ PartitionName(topic.name, i) = partition_name
                     /\ \A j \in (i + 1)..(n - 1) :
                            PartitionName(topic.name, j) # partition_name
         IN /\ partition_client_tx' =
                   [p \in inserted |-> tx_of(p)] @@ partition_client_tx
            /\ partitions' =
                   partitions \o [i \in 1..n |-> NewPartition(topic, i - 1)]
            /\ sent' = sent \o [i \in 1..n |-> 0]
            /\ topics' = (topic.name :> topic) @@ topics
            /\ reply_tx_send_unwrap(CreateTopicCmd(topic),
                                    Reply("topic", Some(topic), None),
                                    reply_rx_alive, 112)
            /\ UNCHANGED handles

\* Mutant of create_topic: no check that the topic already exists.
create_topic_unchecked(topic, reply_rx_alive) ==
    create_new_topic(topic, reply_rx_alive)

create_topic(topic, reply_rx_alive) ==
    IF topic.name \in DOMAIN topics
    THEN reply_existing_topic(topic, reply_rx_alive)
    ELSE create_new_topic(topic, reply_rx_alive)

\* Mutant of PartitionIndex: the hash is narrowed without the remainder by
\* num_partitions.
PartitionIndexWithoutRemainder(topic_name, message_key) ==
    IF IsSome(message_key) THEN Hash(Unwrap(message_key)) % 256 ELSE 0

\* Mutant of PartitionIndex: the key is ignored.
PartitionIndexIgnoringKey(topic_name, message_key) == 0

\* The partition index a lookup resolves to: hash(key) % num_partitions as u64,
\* narrowed to u8, or 0 without a key.
PartitionIndex(topic_name, message_key) ==
    IF IsSome(message_key)
    THEN ((Hash(Unwrap(message_key)) % Unwrap(topics[topic_name].num_partitions)) % 256)
    ELSE 0

get_partition_manager_tx(topic_name, message_key, reply_rx_alive) ==
    LET command == GetPartitionManagerTxCmd(topic_name, message_key) IN
    /\ UNCHANGED <<topics, partition_client_tx, partitions, sent>>
    /\ IF IsSome(message_key) /\ topic_name \notin DOMAIN topics
       THEN \* self.topics.get(..).unwrap() on None
            panic(command, 53) /\ UNCHANGED handles
       ELSE IF /\ IsSome(message_key)
               /\ \/ ~IsSome(topics[topic_name].num_partitions)
                  \/ Unwrap(topics[topic_name].num_partitions) = 0
       THEN \* num_partitions.unwrap() on None, or a remainder by zero
            panic(command, 54) /\ UNCHANGED handles
       ELSE LET partition_name ==
                    PartitionName(topic_name, PartitionIndex(topic_name, message_key))
            IN IF partition_name \in DOMAIN partition_client_tx
               THEN /\ reply_tx_send_unwrap(command,
                           Reply("tx", None, Some(partition_client_tx[partition_name])),
                           reply_rx_alive, 60)
                    /\ handles' = IF reply_rx_alive
                                  THEN handles \cup {partition_client_tx[partition_name]}
                                  ELSE handles
               ELSE /\ reply_tx_send_unwrap(command, Reply("tx", None, None),
                                            reply_rx_alive, 62)
                    /\ UNCHANGED handles

\* Mutant of get_topic_info: the catalog is not consulted, the reply is absent.
get_topic_info_always_absent(topic_name, reply_rx_alive) ==
    /\ UNCHANGED <<topics, partition_client_tx, partitions, sent, handles>>
    /\ reply_tx_send_unwrap(GetTopicInfoCmd(topic_name), Reply("topic", None, None),
                            reply_rx_alive, 73)

\* The GetTopicInfo arm: a clone of the stored record, or None.
get_topic_info(topic_name, reply_rx_alive) ==
    /\ UNCHANGED <<topics, partition_client_tx, partitions, sent, handles>>
    /\ IF topic_name \in DOMAIN topics
       THEN reply_tx_send_unwrap(GetTopicInfoCmd(topic_name),
                                 Reply("topic", Some(topics[topic_name]), None),
                                 reply_rx_alive, 71)
       ELSE reply_tx_send_unwrap(GetTopicInfoCmd(topic_name),
                                 Reply("topic", None, None),
                                 reply_rx_alive, 73)

\* Mutant of RecvReady: the loop keeps receiving after the cancellation branch.
RecvReadyAfterCancelledBranch == mgr \in {"running", "waiting"} /\ parent_rx # << >>

\* The select! arm `Some(command) = parent_rx.recv()`: ready whenever a command is
\* queued, whether or not the token is cancelled (select! picks any ready arm).
RecvReady == mgr = "running" /\ parent_rx # << >>

RecvCreateTopic ==
    /\ RecvReady
    /\ Head(parent_rx).type = "CreateTopic"
    /\ parent_rx' = Tail(parent_rx)
    /\ \E reply_rx_alive \in BOOLEAN :
           create_topic(Unwrap(Head(parent_rx).topic), reply_rx_alive)
    /\ UNCHANGED <<tracker_closed, cancelled, files, sent_before_cancel,
                   parent_tx_dropped, suspended, reader>>

RecvGetPartitionManagerTx ==
    /\ RecvReady
    /\ Head(parent_rx).type = "GetPartitionManagerTx"
    /\ parent_rx' = Tail(parent_rx)
    /\ \E reply_rx_alive \in BOOLEAN :
           get_partition_manager_tx(Head(parent_rx).topic_name,
                                    Head(parent_rx).message_key, reply_rx_alive)
    /\ UNCHANGED <<tracker_closed, cancelled, files, sent_before_cancel,
                   parent_tx_dropped, suspended, reader>>

RecvGetTopicInfo ==
    /\ RecvReady
    /\ Head(parent_rx).type = "GetTopicInfo"
    /\ parent_rx' = Tail(parent_rx)
    /\ \E reply_rx_alive \in BOOLEAN :
           get_topic_info(Head(parent_rx).topic_name, reply_rx_alive)
    /\ UNCHANGED <<tracker_closed, cancelled, files, sent_before_cancel,
                   parent_tx_dropped, suspended, reader>>

\* The select! arm `_ = self.cancellation_token.cancelled()`: close the tracker and
\* start waiting for the writers.
CancelledBranch ==
    /\ mgr = "running"
    /\ cancelled
    /\ tracker_closed' = TRUE
    /\ mgr' = "waiting"
    /\ UNCHANGED <<topics, partition_client_tx, partitions, cancelled, panic_at,
                   parent_rx, last, files, sent, sent_before_cancel, handles,
                   parent_tx_dropped, suspended, reader>>

\* Mutant of tracker_wait_ready: the tracker is closed but not waited for.
tracker_closed_only == tracker_closed

\* Mutant of tracker_wait_ready: only tasks that ended cleanly count as finished.
tracker_wait_all_closed ==
    /\ tracker_closed
    /\ \A w \in 1..Len(partitions) : partitions[w].state = "Closed"

\* TaskTracker::wait() resolves once the tracker is closed and every tracked task
\* has finished.
tracker_wait_ready ==
    /\ tracker_closed
    /\ \A w \in 1..Len(partitions) : partitions[w].state # "Open"

\* wait() returned: break out of the loop, start_topics_manager returns (and drops
\* parent_rx).
TrackerWaitReturns ==
    /\ mgr = "waiting"
    /\ tracker_wait_ready
    /\ mgr' = "returned"
    /\ UNCHANGED <<topics, partition_client_tx, partitions, tracker_closed, cancelled,
                   panic_at, parent_rx, last, files, sent, sent_before_cancel, handles,
                   parent_tx_dropped, suspended, reader>>

(***************************************************************************)
(* Clients of the manager: the sender side of the command channel, the     *)
(* owner of the cancellation token, and producers holding partition        *)
(* Senders.                                                                *)
(***************************************************************************)
\* parent_tx.send(command).await: suspends while the channel is full, fails once
\* the receiver is gone (start_topics_manager has returned or panicked).
ClientSend(commands) ==
    /\ ~parent_tx_dropped
    /\ mgr \in {"running", "waiting"}
    /\ Len(parent_rx) < CmdCap
    /\ \E command \in commands : parent_rx' = Append(parent_rx, command)
    /\ UNCHANGED <<topics, partition_client_tx, partitions, tracker_closed, cancelled,
                   mgr, panic_at, last, files, sent, sent_before_cancel, handles,
                   parent_tx_dropped, suspended, reader>>

\* The last Sender of the command channel is dropped: the channel is closed, the
\* queued commands are still received, and recv() then returns None, which the
\* select! arm `Some(command) = parent_rx.recv()` does not match; the loop goes on
\* waiting for the cancellation.
DropParentTx ==
    /\ ~parent_tx_dropped
    /\ parent_tx_dropped' = TRUE
    /\ UNCHANGED <<topics, partition_client_tx, partitions, tracker_closed, cancelled,
                   mgr, panic_at, parent_rx, last, files, sent, sent_before_cancel,
                   handles, suspended, reader>>

\* cancellation_token.cancel()
Cancel ==
    /\ ~cancelled
    /\ cancelled' = TRUE
    /\ sent_before_cancel' = sent
    /\ UNCHANGED <<topics, partition_client_tx, partitions, tracker_closed, mgr,
                   panic_at, parent_rx, last, files, sent, handles,
                   parent_tx_dropped, suspended, reader>>

TotalSent == LET Sum[i \in 0..Len(sent)] == IF i = 0 THEN 0 ELSE Sum[i - 1] + sent[i]
             IN Sum[Len(sent)]

\* The n-th message sent into channel w.
Message(w, n) == <<w, n>>

\* Mutant of ProducerSend: the send does not look at the channel's capacity.
ProducerSendUnbounded(w) ==
    /\ w \in handles
    /\ w \notin suspended
    /\ partitions[w].state = "Open"
    /\ TotalSent < MaxSent
    /\ partitions' = [partitions EXCEPT ![w].rx = Append(@, Message(w, sent[w] + 1))]
    /\ sent' = [sent EXCEPT ![w] = @ + 1]
    /\ UNCHANGED <<topics, partition_client_tx, tracker_closed, cancelled, mgr,
                   panic_at, parent_rx, last, files, sent_before_cancel, handles,
                   parent_tx_dropped, suspended, reader>>

\* partition_manager_tx.send(message).await on a Sender a lookup returned, the
\* channel having a free slot: the message is queued at once.  (A send into a
\* channel whose writer has dropped its receiver fails and changes nothing.)
ProducerSend(w) ==
    /\ w \in handles
    /\ w \notin suspended
    /\ partitions[w].state = "Open"
    /\ Len(partitions[w].rx) < PARTITION_MANAGER_CHANNEL_SIZE
    /\ TotalSent < MaxSent
    /\ partitions' = [partitions EXCEPT ![w].rx = Append(@, Message(w, sent[w] + 1))]
    /\ sent' = [sent EXCEPT ![w] = @ + 1]
    /\ UNCHANGED <<topics, partition_client_tx, tracker_closed, cancelled, mgr,
                   panic_at, parent_rx, last, files, sent_before_cancel, handles,
                   parent_tx_dropped, suspended, reader>>

\* partition_manager_tx.send(message).await, the channel being full: the sender
\* is suspended.
ProducerSuspends(w) ==
    /\ w \in handles
    /\ w \notin suspended
    /\ partitions[w].state = "Open"
    /\ Len(partitions[w].rx) >= PARTITION_MANAGER_CHANNEL_SIZE
    /\ TotalSent < MaxSent
    /\ suspended' = suspended \cup {w}
    /\ UNCHANGED <<topics, partition_client_tx, partitions, tracker_closed, cancelled,
                   mgr, panic_at, parent_rx, last, files, sent, sent_before_cancel,
                   handles, parent_tx_dropped, reader>>

\* The suspended send completes: the writer has taken a message out and the
\* sender's message takes the free slot.
ProducerResumes(w) ==
    /\ w \in suspended
    /\ partitions[w].state = "Open"
    /\ Len(partitions[w].rx) < PARTITION_MANAGER_CHANNEL_SIZE
    /\ partitions' = [partitions EXCEPT ![w].rx = Append(@, Message(w, sent[w] + 1))]
    /\ sent' = [sent EXCEPT ![w] = @ + 1]
    /\ suspended' = suspended \ {w}
    /\ UNCHANGED <<topics, partition_client_tx, tracker_closed, cancelled, mgr,
                   panic_at, parent_rx, last, files, sent_before_cancel, handles,
                   parent_tx_dropped, reader>>

\* The suspended send fails: the writer task has ended and dropped its receiver,
\* which closes the channel and wakes the sender with an error.
ProducerSendFails(w) ==
    /\ w \in suspended
    /\ partitions[w].state # "Open"
    /\ suspended' = suspended \ {w}
    /\ UNCHANGED <<topics, partition_client_tx, partitions, tracker_closed, cancelled,
                   mgr, panic_at, parent_rx, last, files, sent, sent_before_cancel,
                   handles, parent_tx_dropped, reader>>

(***************************************************************************)
(* The Partition Writer (start_partition_writer), one task per partition:  *)
(* Open, flushing a batch whenever batch_size messages are pending, and    *)
(* Closed after the final flush at cancellation; Failed after an I/O       *)
(* error on append.                                                        *)
(***************************************************************************)
\* The segment file after appending one encoded batch (created on first write).
AppendBatch(path, w, records) ==
    LET batch == [by |-> w, records |-> records]
    IN IF path \in DOMAIN files
       THEN [files EXCEPT ![path] = Append(@, batch)]
       ELSE (path :> <<batch>>) @@ files

WriterFrame ==
    UNCHANGED <<topics, partition_client_tx, tracker_closed, cancelled, mgr, panic_at,
                parent_rx, last, sent, sent_before_cancel, handles,
                parent_tx_dropped, suspended, reader>>

\* Mutant of WriterRecv: the arriving message goes to the front of the pending batch.
WriterRecvNewestFirst(w) ==
    /\ partitions[w].state = "Open"
    /\ partitions[w].rx # << >>
    /\ LET pending == <<Head(partitions[w].rx)>> \o partitions[w].pending
       IN IF Len(pending) >= partitions[w].batch_size
          THEN /\ files' = AppendBatch(partitions[w].path, w, pending)
               /\ partitions' = [partitions EXCEPT ![w].rx = Tail(@),
                                                   ![w].pending = << >>]
          ELSE /\ partitions' = [partitions EXCEPT ![w].rx = Tail(@),
                                                   ![w].pending = pending]
               /\ UNCHANGED files
    /\ WriterFrame

\* Open, a message arrives: it joins the pending batch, which is flushed when it
\* holds batch_size messages.  Ready whenever a message is queued, cancelled or not.
WriterRecv(w) ==
    /\ partitions[w].state = "Open"
    /\ partitions[w].rx # << >>
    /\ LET pending == Append(partitions[w].pending, Head(partitions[w].rx))
       IN IF Len(pending) >= partitions[w].batch_size
          THEN /\ files' = AppendBatch(partitions[w].path, w, pending)
               /\ partitions' = [partitions EXCEPT ![w].rx = Tail(@),
                                                   ![w].pending = << >>]
          ELSE /\ partitions' = [partitions EXCEPT ![w].rx = Tail(@),
                                                   ![w].pending = pending]
               /\ UNCHANGED files
    /\ WriterFrame

\* Draining: the token is cancelled; the pending messages are flushed as a final
\* batch and the task ends, dropping its receiver with whatever is still queued.
WriterCancelled(w) ==
    /\ partitions[w].state = "Open"
    /\ cancelled
    /\ files' = IF partitions[w].pending # << >>
                THEN AppendBatch(partitions[w].path, w, partitions[w].pending)
                ELSE files
    /\ partitions' = [partitions EXCEPT ![w].state = "Closed",
                                        ![w].rx = << >>,
                                        ![w].pending = << >>]
    /\ WriterFrame

\* An append to the segment file fails: fatal to this writer, whose task ends.
WriterIoError(w) ==
    /\ partitions[w].state = "Open"
    /\ \/ /\ partitions[w].rx # << >>
          /\ Len(partitions[w].pending) + 1 >= partitions[w].batch_size
       \/ /\ cancelled
          /\ partitions[w].pending # << >>
    /\ partitions' = [partitions EXCEPT ![w].state = "Failed",
                                        ![w].rx = << >>,
                                        ![w].pending = << >>]
    /\ UNCHANGED files
    /\ WriterFrame

(***************************************************************************)
(* The Batch Codec (common::codecs): a batch is encoded as a length prefix *)
(* of two bytes followed by its records; a record is its payload with a    *)
(* length byte, then the optional key and the optional timestamp, each     *)
(* behind a marker byte (0 absent, 1 present).                             *)
(***************************************************************************)
\* common::models::Message: payload bytes, optional key bytes, optional timestamp.
MessageRecord(payload, key, timestamp) ==
    [payload |-> payload, key |-> key, timestamp |-> timestamp]

\* The messages of the test, by number: message_1 has a key and no timestamp,
\* message_2 a timestamp and no key, message_3 both; any other number stands for
\* a message with neither.
TestMessage(n) ==
    CASE n = 1 -> MessageRecord(<<1>>, Some(<<11>>), None)
      [] n = 2 -> MessageRecord(<<2>>, None, Some(90))
      [] n = 3 -> MessageRecord(<<3>>, Some(<<12, 13>>), Some(99))
      [] OTHER -> MessageRecord(<< >>, None, None)

\* common::models::Batch
Batch(records) == [records |-> records]

LengthPrefix(n) == <<n \div 256, n % 256>>

EncodeMessage(m) ==
    <<Len(m.payload)>> \o m.payload
    \o (IF IsSome(m.key) THEN <<1, Len(Unwrap(m.key))>> \o Unwrap(m.key) ELSE <<0>>)
    \o (IF IsSome(m.timestamp) THEN <<1, Unwrap(m.timestamp)>> ELSE <<0>>)

\* encode(batch): the length of the encoded records, then the records.
EncodeBatch(batch) ==
    LET body[i \in 0..Len(batch.records)] ==
            IF i = 0 THEN << >> ELSE body[i - 1] \o EncodeMessage(batch.records[i])
    IN LengthPrefix(Len(body[Len(batch.records)])) \o body[Len(batch.records)]

\* N batches encoded back to back, with no separator.
EncodeAll(batches) ==
    LET bytes[i \in 0..Len(batches)] ==
            IF i = 0 THEN << >> ELSE bytes[i - 1] \o EncodeBatch(batches[i])
    IN bytes[Len(batches)]

\* What a read of one field off the front of a buffer gives: the value and the
\* rest of the buffer, or a failure.
Read(value, rest) == [ok |-> TRUE, value |-> value, rest |-> rest]
ReadFailed == [ok |-> FALSE, value |-> << >>, rest |-> << >>]

ReadBytes(buf) ==
    IF Len(buf) >= 1 /\ Len(buf) >= 1 + buf[1]
    THEN Read(SubSeq(buf, 2, 1 + buf[1]), SubSeq(buf, 2 + buf[1], Len(buf)))
    ELSE ReadFailed

ReadKey(buf) ==
    IF buf = << >> \/ buf[1] \notin {0, 1} THEN ReadFailed
    ELSE IF buf[1] = 0 THEN Read(None, Tail(buf))
    ELSE LET key == ReadBytes(Tail(buf))
         IN IF key.ok THEN Read(Some(key.value), key.rest) ELSE ReadFailed

ReadTimestamp(buf) ==
    IF buf = << >> \/ buf[1] \notin {0, 1} THEN ReadFailed
    ELSE IF buf[1] = 0 THEN Read(None, Tail(buf))
    ELSE IF Len(buf) >= 2 THEN Read(Some(buf[2]), SubSeq(buf, 3, Len(buf)))
    ELSE ReadFailed

ReadMessage(buf) ==
    LET payload == ReadBytes(buf) IN
    IF ~payload.ok THEN ReadFailed
    ELSE LET key == ReadKey(payload.rest) IN
         IF ~key.ok THEN ReadFailed
         ELSE LET timestamp == ReadTimestamp(key.rest) IN
              IF ~timestamp.ok THEN ReadFailed
              ELSE Read(MessageRecord(payload.value, key.value, timestamp.value),
                        timestamp.rest)

\* The records of a batch body, read to its end.
RECURSIVE ReadRecords(_)
ReadRecords(body) ==
    IF body = << >> THEN Read(<< >>, << >>)
    ELSE LET m == ReadMessage(body) IN
         IF ~m.ok THEN ReadFailed
         ELSE LET more == ReadRecords(m.rest) IN
              IF more.ok THEN Read(<<m.value>> \o more.value, << >>) ELSE ReadFailed

\* What decode returns, with the buffer it leaves.
Decoded(result, batch, buf) == [result |-> result, batch |-> batch, src |-> buf]

\* Mutant of Decode: the length prefix is taken off the buffer before the body is
\* known to be there.
DecodeConsumingPrefix(buf) ==
    IF Len(buf) < 2 THEN Decoded("None", Batch(<< >>), buf)
    ELSE LET n == buf[1] * 256 + buf[2] IN
         IF Len(buf) < 2 + n THEN Decoded("None", Batch(<< >>), SubSeq(buf, 3, Len(buf)))
         ELSE LET records == ReadRecords(SubSeq(buf, 3, 2 + n)) IN
              IF records.ok /\ records.value # << >>
              THEN Decoded("Some", Batch(records.value), SubSeq(buf, 3 + n, Len(buf)))
              ELSE Decoded("Err", Batch(<< >>), buf)

\* Mutant of Decode: the batch is cut off the buffer one byte short.
DecodeLeavingLastByte(buf) ==
    IF Len(buf) < 2 THEN Decoded("None", Batch(<< >>), buf)
    ELSE LET n == buf[1] * 256 + buf[2] IN
         IF Len(buf) < 2 + n THEN Decoded("None", Batch(<< >>), buf)
         ELSE LET records == ReadRecords(SubSeq(buf, 3, 2 + n)) IN
              IF records.ok /\ records.value # << >>
              THEN Decoded("Some", Batch(records.value), SubSeq(buf, 2 + n, Len(buf)))
              ELSE Decoded("Err", Batch(<< >>), buf)

\* decode(&mut src): None, with the buffer untouched, while the buffer holds less
\* than the length prefix and the bytes it declares; the batch, taken off the
\* buffer, when they are all there; an error when they do not make up records.
Decode(buf) ==
    IF Len(buf) < 2 THEN Decoded("None", Batch(<< >>), buf)
    ELSE LET n == buf[1] * 256 + buf[2] IN
         IF Len(buf) < 2 + n THEN Decoded("None", Batch(<< >>), buf)
         ELSE LET records == ReadRecords(SubSeq(buf, 3, 2 + n)) IN
              IF records.ok /\ records.value # << >>
              THEN Decoded("Some", Batch(records.value), SubSeq(buf, 3 + n, Len(buf)))
              ELSE Decoded("Err", Batch(<< >>), buf)

\* The loop of the test over decode, run to its end on one buffer:
\* while let Some(batch) = decoder.decode(&mut src) { decoded_batches.push(batch) }
RECURSIVE DecodeAll(_)
DecodeAll(buf) ==
    LET d == Decode(buf) IN
    IF d.result = "Some"
    THEN LET more == DecodeAll(d.src)
         IN [batches |-> <<d.batch>> \o more.batches, result |-> more.result,
             src |-> more.src]
    ELSE [batches |-> << >>, result |-> d.result, src |-> d.src]

\* The bytes of a segment file: its batches, encoded, in write order.  The n-th
\* message sent into a channel carries the content of the test's n-th message.
FileContents(path) ==
    LET batches == IF path \in DOMAIN files THEN files[path] ELSE << >>
        Content(records) == [i \in 1..Len(records) |-> TestMessage(records[i][2])]
    IN EncodeAll([i \in 1..Len(batches) |-> Batch(Content(batches[i].records))])

(***************************************************************************)
(* A reader of encoded batches: the bytes arrive in its buffer piece by    *)
(* piece, as from a growing file, and it calls decode on the buffer.       *)
(***************************************************************************)
\* The messages batches are made of.
Messages == {TestMessage(n) : n \in 0..3}

\* The records cut into batches after the positions in cuts and at the end.
Split(records, cuts) ==
    LET ends == IF records = << >> THEN {} ELSE cuts \cup {Len(records)}
        End(i) == CHOOSE e \in ends : Cardinality({x \in ends : x <= e}) = i
        Start(i) == IF i = 1 THEN 1 ELSE End(i - 1) + 1
    IN [i \in 1..Cardinality(ends) |-> Batch(SubSeq(records, Start(i), End(i)))]

\* The inputs of the codec: every sequence of non-empty batches that holds up to
\* MaxRecords records in all.
BatchSequences ==
    UNION {{Split(records, cuts) : records \in [1..n -> Messages],
                                   cuts \in SUBSET (1..(n - 1))} : n \in 0..MaxRecords}

InitCodec ==
    /\ InitBroker
    /\ source_batches \in BatchSequences
    /\ file_contents = EncodeAll(source_batches)
    /\ src = << >>
    /\ decoded_batches = << >>
    /\ decode_result = ""

\* The next byte of the file arrives in the buffer.
ReadMore ==
    /\ file_contents # << >>
    /\ decode_result # "Err"
    /\ src' = Append(src, Head(file_contents))
    /\ file_contents' = Tail(file_contents)
    /\ UNCHANGED <<broker, source_batches, decoded_batches, decode_result>>

\* One call of decoder.decode(&mut src), a returned batch being pushed to
\* decoded_batches; an error ends the reading.
DecodeCall ==
    /\ decode_result # "Err"
    /\ LET d == Decode(src)
       IN /\ src' = d.src
          /\ decode_result' = d.result
          /\ decoded_batches' = IF d.result = "Some"
                                THEN Append(decoded_batches, d.batch)
                                ELSE decoded_batches
    /\ UNCHANGED <<broker, source_batches, file_contents>>

NextCodec == ReadMore \/ DecodeCall

SpecCodec == InitCodec /\ [][NextCodec]_vars

\* The whole system.
Next ==
    \/ ClientSend(TopicManagerCommands)
    \/ DropParentTx
    \/ Cancel
    \/ RecvCreateTopic
    \/ RecvGetPartitionManagerTx
    \/ RecvGetTopicInfo
    \/ CancelledBranch
    \/ TrackerWaitReturns
    \/ \E w \in 1..Len(partitions) : ProducerSend(w)
    \/ \E w \in 1..Len(partitions) : ProducerSuspends(w)
    \/ \E w \in 1..Len(partitions) : ProducerResumes(w)
    \/ \E w \in 1..Len(partitions) : ProducerSendFails(w)
    \/ \E w \in 1..Len(partitions) : WriterRecv(w)
    \/ \E w \in 1..Len(partitions) : WriterCancelled(w)
    \/ \E w \in 1..Len(partitions) : WriterIoError(w)

Spec == Init /\ [][Next]_vars

\* The command loop under every command, with no producer traffic: the writers
\* only start and, at cancellation, close.
NextControl ==
    \/ ClientSend(ControlCommands)
    \/ DropParentTx
    \/ Cancel
    \/ RecvCreateTopic
    \/ RecvGetPartitionManagerTx
    \/ RecvGetTopicInfo
    \/ CancelledBranch
    \/ TrackerWaitReturns
    \/ \E w \in 1..Len(partitions) : WriterCancelled(w)

SpecControl == Init /\ [][NextControl]_vars

\* The command loop under fair scheduling: the manager's task and the writers'
\* tasks are polled again and again, so a select! arm that stays ready is taken
\* and a wait that can end does end.  Clients and the owner of the token are
\* under no obligation.
FairSpecControl ==
    /\ SpecControl
    /\ WF_vars(CancelledBranch)
    /\ WF_vars(TrackerWaitReturns)
    /\ WF_vars(\E w \in 1..Len(partitions) : WriterCancelled(w))

\* The data path: topics are created and looked up, producers send, writers batch,
\* flush, fail and close, the manager shuts down.
NextData ==
    \/ ClientSend(DataCommands)
    \/ Cancel
    \/ RecvCreateTopic
    \/ RecvGetPartitionManagerTx
    \/ CancelledBranch
    \/ TrackerWaitReturns
    \/ \E w \in 1..Len(partitions) : ProducerSend(w)
    \/ \E w \in 1..Len(partitions) : ProducerSuspends(w)
    \/ \E w \in 1..Len(partitions) : ProducerResumes(w)
    \/ \E w \in 1..Len(partitions) : ProducerSendFails(w)
    \/ \E w \in 1..Len(partitions) : WriterRecv(w)
    \/ \E w \in 1..Len(partitions) : WriterCancelled(w)
    \/ \E w \in 1..Len(partitions) : WriterIoError(w)

SpecData == Init /\ [][NextData]_vars

(***************************************************************************)
(* Properties.                                                             *)
(***************************************************************************)
\* A step of the command loop that takes the oldest command off the channel.
CommandProcessed == parent_rx # << >> /\ parent_rx' = Tail(parent_rx)

\* The writer tasks spawned for partition `partition_index` of topic `name`.
WritersOf(name, partition_index) ==
    {w \in 1..Len(partitions) :
        /\ partitions[w].topic = name
        /\ partitions[w].partition_index = partition_index}

\* The writer tasks spawned for topic `name`.
WritersOfTopic(name) == {w \in 1..Len(partitions) : partitions[w].topic = name}

\* The records of a segment file, batch after batch, in write order.
FileRecords(path) ==
    LET batches == IF path \in DOMAIN files THEN files[path] ELSE << >>
        Concat[i \in 0..Len(batches)] ==
            IF i = 0 THEN << >> ELSE Concat[i - 1] \o batches[i].records
    IN Concat[Len(batches)]

\* The records of writer w's segment file that came through w's channel.
WrittenFrom(w) ==
    LET FromW(m) == m[1] = w
    IN SelectSeq(FileRecords(partitions[w].path), FromW)

\* The first n messages sent into channel w, in send order.
SendSequence(w, n) == [i \in 1..n |-> Message(w, i)]

LastIs(type) == IsSome(last.cmd) /\ Unwrap(last.cmd).type = type

\* C1: a CreateTopic for a name already in the catalog replies with the stored
\* record (or finds its reply receiver gone) and changes neither the catalog, the
\* routing table nor the spawned writers; every topic of the catalog has exactly
\* num_partitions writers, however often it was requested.
C1_CreateTopicIdempotent ==
    [][/\ ( /\ CommandProcessed
            /\ Head(parent_rx).type = "CreateTopic"
            /\ Head(parent_rx).topic_name \in DOMAIN topics )
          => /\ topics' = topics
             /\ partition_client_tx' = partition_client_tx
             /\ partitions' = partitions
             /\ last'.reply \in
                    {Reply("topic", Some(topics[Head(parent_rx).topic_name]), None),
                     DroppedReply}
       /\ \A name \in DOMAIN topics' :
             Cardinality({w \in 1..Len(partitions') : partitions'[w].topic = name})
                 = Unwrap(topics'[name].num_partitions)
      ]_vars

\* C1, witness: a CreateTopic asking for another num_partitions than the stored
\* record's was answered with the stored record, whose writers are all there.
C1_Witness ==
    /\ LastIs("CreateTopic")
    /\ last.reply.kind = "topic"
    /\ IsSome(last.reply.topic)
    /\ Unwrap(last.reply.topic) # Unwrap(Unwrap(last.cmd).topic)
    /\ Unwrap(last.reply.topic) = topics["a"]
    /\ Cardinality(WritersOfTopic("a")) = MaxPartitions

\* C7 (as claimed): a GetPartitionManagerTx for a topic that is not in the catalog,
\* or that has no routing entry, is answered with an absent handle (unless the
\* reply receiver is gone); the manager does not panic resolving it.
C7_UnknownTopicLookupRepliesAbsent ==
    ( /\ LastIs("GetPartitionManagerTx")
      /\ \/ Unwrap(last.cmd).topic_name \notin DOMAIN topics
         \/ WritersOfTopic(Unwrap(last.cmd).topic_name) = {} )
    => /\ last.reply \in {Reply("tx", None, None), DroppedReply}
       /\ panic_at \notin {53, 54}

\* C8 (as claimed): a reply whose receiver was dropped does not end the command
\* loop.
C8_DroppedReplyIsNotFatal ==
    last.reply = DroppedReply => mgr # "panicked"

\* C9: a delivered GetPartitionManagerTx reply for an existing topic holds the
\* handle registered under index hash(key) mod num_partitions, or index 0 without
\* a key, which is the channel of the writer of that partition; two lookups in a
\* row with the same topic and key get the same handle.
C9_ResolvedIndex(command) ==
    IF IsSome(command.message_key)
    THEN Hash(Unwrap(command.message_key))
            % Unwrap(topics[command.topic_name].num_partitions)
    ELSE 0

C9_ReplyIsRegisteredHandle ==
    ( /\ LastIs("GetPartitionManagerTx")
      /\ Unwrap(last.cmd).topic_name \in DOMAIN topics
      /\ last.reply.kind = "tx" )
    => LET command == Unwrap(last.cmd)
           index == C9_ResolvedIndex(command)
           name == PartitionName(command.topic_name, index)
       IN /\ name \in DOMAIN partition_client_tx
             => /\ last.reply.tx = Some(partition_client_tx[name])
                /\ partition_client_tx[name] \in WritersOf(command.topic_name, index)
          /\ name \notin DOMAIN partition_client_tx
             => last.reply.tx = None

C9_DeterministicRouting ==
    [][/\ C9_ReplyIsRegisteredHandle'
       /\ ( /\ LastIs("GetPartitionManagerTx")
            /\ last.reply.kind = "tx"
            /\ last'.reply.kind = "tx"
            /\ last'.cmd = last.cmd )
          => last'.reply = last.reply
      ]_vars

\* C9, witness: a keyed lookup was answered with the handle of partition 1, and a
\* keyless one with the handle of partition 0.
C9_Witness ==
    /\ LastIs("GetPartitionManagerTx")
    /\ Unwrap(last.cmd).message_key = Some("k2")
    /\ IsSome(last.reply.tx)
    /\ partitions[Unwrap(last.reply.tx)].partition_index = 1
    /\ Unwrap(topics["a"].num_partitions) = 2

\* C10 (as claimed): once the token is cancelled, the command loop takes no
\* command off the command channel and carries on (a step that ends the manager
\* in a panic is left aside).
C10_NoCommandAfterCancel ==
    [][cancelled => ~(CommandProcessed /\ mgr' = "running")]_vars

\* C10 (amended): once the manager has taken the cancellation branch, it stays out
\* of the loop, takes no command off the channel and leaves the catalog, the
\* routing table and the spawned writers as they are.
C10_NoCommandAfterCancelledBranch ==
    [][mgr # "running"
          => /\ mgr' # "running"
             /\ ~CommandProcessed
             /\ topics' = topics
             /\ partition_client_tx' = partition_client_tx
             /\ Len(partitions') = Len(partitions)
             /\ last' = last
      ]_vars

\* C10, witness: the manager waits for its writers while a command sits unread in
\* the command channel.
C10_Witness ==
    /\ mgr = "waiting"
    /\ parent_rx # << >>
    /\ \E w \in 1..Len(partitions) : partitions[w].state = "Open"

C3_ReturnsAfterAllWritersFinished ==
    mgr = "returned"
    => \A w \in 1..Len(partitions) : partitions[w].state \in {"Closed", "Failed"}

\* C3, witness: the manager has returned after two writers, one of which had
\* written a batch, closed.
C3_Witness ==
    /\ mgr = "returned"
    /\ Len(partitions) = 2
    /\ \A w \in 1..Len(partitions) : partitions[w].state = "Closed"
    /\ \E w \in 1..Len(partitions) : WrittenFrom(w) # << >>

C5_PerPartitionOrdering ==
    \A w \in 1..Len(partitions) :
       /\ Len(WrittenFrom(w)) <= sent[w]
       /\ WrittenFrom(w) = SendSequence(w, Len(WrittenFrom(w)))
       /\ partitions[w].state = "Open"
          => WrittenFrom(w) \o partitions[w].pending \o partitions[w].rx
                = SendSequence(w, sent[w])

\* C5, witness: a writer has written all three messages sent to it in two batches,
\* the first of two records.
C5_Witness ==
    \E w \in 1..Len(partitions) :
       /\ sent[w] = 3
       /\ Len(WrittenFrom(w)) = 3
       /\ Len(files[partitions[w].path]) = 2
       /\ Len(files[partitions[w].path][1].records) = 2

\* C6 (as claimed): all the batches of a segment file were appended by one writer
\* task (stated for the runs without cancellation and without a panic).
C6_SegmentFileHasOneWriter ==
    (~cancelled /\ panic_at = 0)
    => \A path \in DOMAIN files :
          \A i, j \in 1..Len(files[path]) : files[path][i].by = files[path][j].by

\* A writer task ends in failure in this step.
WriterFails(w) == partitions[w].state = "Open" /\ partitions'[w].state = "Failed"

\* C11: the step in which a writer fails on I/O changes nothing but that writer:
\* the manager, its catalog and routing table, the command channel, the sibling
\* writers and the files stay as they are.  With a failed writer around, the
\* manager still takes the next command, an open sibling still takes its next
\* message, and after cancellation the manager's wait still ends once no writer
\* is open, the failed one counting as finished.
C11_IoFailureIsIsolated ==
    /\ [][\A w \in 1..Len(partitions) :
            WriterFails(w)
            => /\ <<mgr, panic_at, tracker_closed, topics, partition_client_tx,
                    parent_rx, last, handles, files>>' =
                  <<mgr, panic_at, tracker_closed, topics, partition_client_tx,
                    parent_rx, last, handles, files>>
               /\ Len(partitions') = Len(partitions)
               /\ \A v \in 1..Len(partitions) :
                     v # w => partitions'[v] = partitions[v]
         ]_vars
    /\ []( (\E f \in 1..Len(partitions) : partitions[f].state = "Failed")
           => /\ (mgr = "running" /\ parent_rx # << >>)
                 => ENABLED (RecvCreateTopic \/ RecvGetPartitionManagerTx)
              /\ \A w \in 1..Len(partitions) :
                    (partitions[w].state = "Open" /\ partitions[w].rx # << >>)
                    => ENABLED WriterRecv(w)
              /\ (mgr = "running" /\ cancelled) => ENABLED CancelledBranch
              /\ ( /\ mgr = "waiting"
                   /\ \A w \in 1..Len(partitions) : partitions[w].state # "Open" )
                 => ENABLED TrackerWaitReturns )

\* C11, witness: one writer has failed, its sibling has gone on to write a batch
\* and to close at cancellation, and the manager has returned.
C11_Witness ==
    /\ mgr = "returned"
    /\ \E f, w \in 1..Len(partitions) :
          /\ partitions[f].state = "Failed"
          /\ partitions[w].state = "Closed"
          /\ WrittenFrom(w) # << >>
          /\ WrittenFrom(f) = << >>

\* C12: a GetTopicInfo step replies with the catalog's record of the name, or with
\* an absent record when the name is not in the catalog (or finds its reply
\* receiver gone), and leaves the catalog, the routing table and the spawned
\* writers unchanged.
C12_GetTopicInfoIsPureLookup ==
    [][( /\ CommandProcessed
         /\ Head(parent_rx).type = "GetTopicInfo" )
       => /\ topics' = topics
          /\ partition_client_tx' = partition_client_tx
          /\ partitions' = partitions
          /\ last'.cmd = Some(Head(parent_rx))
          /\ last'.reply \in
                {IF Head(parent_rx).topic_name \in DOMAIN topics
                 THEN Reply("topic", Some(topics[Head(parent_rx).topic_name]), None)
                 ELSE Reply("topic", None, None),
                 DroppedReply}
      ]_vars

\* C12, witness: a GetTopicInfo was answered with the record of a topic of two
\* partitions, both writers of which are there.
C12_Witness ==
    /\ LastIs("GetTopicInfo")
    /\ "a" \in DOMAIN topics
    /\ last.reply = Reply("topic", Some(topics["a"]), None)
    /\ Unwrap(topics["a"].num_partitions) = 2
    /\ Cardinality(WritersOfTopic("a")) = 2

\* The scenario of the test: the only topic is "a", of one partition and
\* batch_size 2; three messages were sent into its channel before cancel(), and
\* start_topics_manager has returned after the writer closed.
TestScenarioDone ==
    /\ mgr = "returned"
    /\ DOMAIN topics = {"a"}
    /\ topics["a"] = Topic("a", Some(1), 2)
    /\ Len(partitions) = 1
    /\ partitions[1].state = "Closed"
    /\ sent_before_cancel = <<3>>

C14_CodecRoundTrip ==
    /\ decode_result # "Err"
    /\ Len(decoded_batches) <= Len(source_batches)
    /\ decoded_batches = SubSeq(source_batches, 1, Len(decoded_batches))
    /\ LET rest == DecodeAll(src \o file_contents)
       IN /\ decoded_batches \o rest.batches = source_batches
          /\ rest.result = "None"
          /\ rest.src = << >>

\* C14, witness: two different batches, the first of two records, one with a key
\* and a timestamp, have been decoded from the buffer, which is empty.
C14_Witness ==
    /\ Len(source_batches) = 2
    /\ decoded_batches = source_batches
    /\ source_batches[1] # source_batches[2]
    /\ Len(source_batches[1].records) = 2
    /\ source_batches[1].records[2] = TestMessage(3)
    /\ src = << >>
    /\ file_contents = << >>

\* The buffer holds fewer bytes than one complete batch: it is empty, or a strict
\* prefix of the encoding of the batch that is next to be decoded.
IncompleteBatch(buf) ==
    \/ buf = << >>
    \/ /\ Len(decoded_batches) < Len(source_batches)
       /\ LET bytes == EncodeBatch(source_batches[Len(decoded_batches) + 1])
          IN /\ Len(buf) < Len(bytes)
             /\ buf = SubSeq(bytes, 1, Len(buf))

\* C15: a decode call on a buffer that holds fewer bytes than one complete batch
\* returns None, not an error, and leaves the buffer as it was.
C15_PartialInputSafety ==
    [][( /\ file_contents' = file_contents
         /\ IncompleteBatch(src) )
       => /\ decode_result' = "None"
          /\ src' = src
          /\ decoded_batches' = decoded_batches
      ]_vars

\* C15, witness: after one batch was decoded, a call on a buffer holding the
\* length prefix and a part of the next batch has returned None.
C15_Witness ==
    /\ decode_result = "None"
    /\ Len(decoded_batches) = 1
    /\ Len(src) > 2
    /\ IncompleteBatch(src)
    /\ file_contents # << >>

\* The suspended send on channel w completes in this step: its message is queued.
SendCompletes(w) ==
    /\ Len(partitions[w].rx) < PARTITION_MANAGER_CHANNEL_SIZE
    /\ partitions'[w].rx = Append(partitions[w].rx, Message(w, sent[w] + 1))
    /\ sent'[w] = sent[w] + 1

\* C16 (as claimed): a sender suspended on a full channel leaves its suspension
\* only by the writer having taken a message out, its own message then being
\* queued.
C16_SuspendedUntilMessageTakenOut ==
    [][\A w \in suspended : w \notin suspended' => SendCompletes(w)]_vars

\* C16 (amended): a partition channel never holds more messages than its capacity
\* and no message is queued into a full channel; a sender that found the channel
\* full stays suspended until the writer has taken a message out, its own message
\* then being queued, or until the writer task has ended, the send then failing
\* with nothing queued.
C16_BoundedBackPressure ==
    /\ [](\A w \in 1..Len(partitions) :
             Len(partitions[w].rx) <= PARTITION_MANAGER_CHANNEL_SIZE)
    /\ [][\A w \in 1..Len(partitions) :
             /\ Len(partitions[w].rx) >= PARTITION_MANAGER_CHANNEL_SIZE
                => sent'[w] = sent[w]
             /\ (w \in suspended /\ w \notin suspended')
                => \/ SendCompletes(w)
                   \/ /\ partitions[w].state # "Open"
                      /\ partitions' = partitions
                      /\ sent' = sent
         ]_vars

\* C16, witness: a sender is suspended on a full channel whose writer is open,
\* the token being cancelled: the writer may still take a message out, or end.
C16_Witness ==
    \E w \in suspended :
       /\ Len(partitions[w].rx) = PARTITION_MANAGER_CHANNEL_SIZE
       /\ partitions[w].state = "Open"
       /\ cancelled

\* C17 (as claimed): once the token is cancelled with the manager in its loop,
\* every spawned writer eventually is closed and start_topics_manager eventually
\* has returned.
C17_CancellationTerminatesAll ==
    (cancelled /\ mgr = "running")
    ~> ( /\ mgr = "returned"
         /\ \A w \in 1..Len(partitions) : partitions[w].state = "Closed" )

\* The routing-table keys of a topic record: "{name}-0" .. "{name}-(n-1)".
RoutingKeys(topic) ==
    {PartitionName(topic.name, i) : i \in 0..(Unwrap(topic.num_partitions) - 1)}

\* C18: whenever the manager is between two commands (or has ended), every topic
\* of the catalog has a partition count and all of its routing entries, each
\* holding the channel of a spawned writer of that partition, and every routing
\* entry belongs to a topic of the catalog.
C18_CatalogRoutingConsistent ==
    /\ \A name \in DOMAIN topics :
          /\ topics[name].name = name
          /\ IsSome(topics[name].num_partitions)
          /\ RoutingKeys(topics[name]) \subseteq DOMAIN partition_client_tx
          /\ \A i \in 0..(Unwrap(topics[name].num_partitions) - 1) :
                partition_client_tx[PartitionName(name, i)] \in WritersOf(name, i)
    /\ \A p \in DOMAIN partition_client_tx :
          \E name \in DOMAIN topics : p \in RoutingKeys(topics[name])
    /\ \A w \in 1..Len(partitions) : partitions[w].topic \in DOMAIN topics

\* C18, witness: a topic of two partitions was created and registered with both
\* its routing entries, and the reply of that CreateTopic found its receiver gone.
C18_Witness ==
    /\ DOMAIN topics = {"a"}
    /\ DOMAIN partition_client_tx = {"a-0", "a-1"}
    /\ Len(partitions) = 2
    /\ panic_at = 112

C20_LookupOfExistingTopicIsPresent ==
    /\ \A name \in DOMAIN topics :
          IsSome(topics[name].num_partitions)
          /\ Unwrap(topics[name].num_partitions) >= 1
          => \A key \in {None} \cup {Some(k) : k \in Keys} :
                PartitionIndex(name, key)
                    \in 0..(Unwrap(topics[name].num_partitions) - 1)
    /\ ( /\ LastIs("GetPartitionManagerTx")
         /\ Unwrap(last.cmd).topic_name \in DOMAIN topics
         /\ Unwrap(topics[Unwrap(last.cmd).topic_name].num_partitions) >= 1
         /\ last.reply # DroppedReply )
       => LET name == Unwrap(last.cmd).topic_name
              index == PartitionIndex(name, Unwrap(last.cmd).message_key)
          IN /\ panic_at = 0
             /\ last.reply.kind = "tx"
             /\ IsSome(last.reply.tx)
             /\ last.reply.tx = Some(partition_client_tx[PartitionName(name, index)])
             /\ Unwrap(last.reply.tx) \in WritersOf(name, index)

\* C20, witness: a keyed lookup of a topic of one partition, the key's hash being
\* odd, was answered with the handle of partition 0.
C20_Witness ==
    /\ LastIs("GetPartitionManagerTx")
    /\ Unwrap(last.cmd).message_key = Some("k2")
    /\ "a" \in DOMAIN topics
    /\ topics["a"].num_partitions = Some(1)
    /\ last.reply = Reply("tx", None, Some(1))

====
